---- MODULE Spec2Model ----
(***************************************************************************)
(* A model of main.py of global-entry-bot: one run of main(), from the     *)
(* parsed command line to the end of the run or the first uncaught         *)
(* exception.  The network (the scheduler API, the Twitter API), the       *)
(* credentials file and the environment are inputs, drawn where the code   *)
(* reads them.                                                             *)
(***************************************************************************)
EXTENDS Integers, Sequences, FiniteSets, TLC

\* Bounds of the model.
MaxLocations == 2       \* location entries on the command line
MaxRecords == 3         \* slot records the scheduler API returns in one run

VARIABLES
    locations,          \* args.locations: the parsed NAME,CODE entries
    test,               \* args.test
    verbose,            \* args.verbose
    pc,                 \* position of the run
    exc,                \* the exception that ended the run, if any
    credentials,        \* main's credentials
    tweeter,            \* main's AppointmentTweeter
    location_details,   \* the @cache of _location_details()
    detail_results,     \* the JSON list the location details endpoint returned
    i,                  \* index of the location entry whose generator is running
    tz,                 \* Location.timezone of each entry (cached_property)
    url,                \* the slots URL last requested
    active_slots,       \* get_appointments: active_slots of the running generator
    k,                  \* get_appointments: number of active_slots already yielded
    appointment,        \* the Appointment yielded and not yet consumed by main's loop
    result,             \* the slot record the yielded appointment was made from
    slot_gets,          \* per entry: GETs issued to the slots endpoint
    detail_gets,        \* GETs issued to the location details endpoint
    results,            \* get_appointments: results of the running generator
    n_records,          \* slot records received so far
    n_available,        \* of them, records whose 'active' is present and > 0
    n_tweets,           \* invocations of AppointmentTweeter.tweet
    n_posts,            \* calls of api.PostUpdate
    n_statuses,         \* PostUpdate calls the service accepted
    last_post,          \* what the service answered to the latest PostUpdate
    last_get,           \* the latest GET and whether the connection failed
    cred_input_ok,      \* the credentials source read was complete
    dispatched,         \* the appointments tweet was invoked with, and their messages
    log                 \* records the logging handlers have written, per message

vars == <<locations, test, verbose, pc, exc, credentials, tweeter,
          location_details, detail_results, i, tz, url, active_slots, k,
          appointment, result, slot_gets, detail_gets, results, n_records,
          n_available,
          n_tweets, n_posts, n_statuses, last_post, last_get, cred_input_ok,
          dispatched, log>>

----------------------------------------------------------------------------
\* Exceptions.

NoException == [type |-> "None", origin |-> "None"]

Raise(type, origin) == [type |-> type, origin |-> origin]

Ok(v) == [exc |-> NoException, val |-> v]

Fail(type, origin) == [exc |-> Raise(type, origin), val |-> 0]

Raised(r) == r.exc.type # "None"

----------------------------------------------------------------------------
\* Logging.

\* The messages, without their arguments.
InfoMessages == {"Loading twitter credentials",
                 "Starting checks",
                 "Found appointments",
                 "Appointment found",
                 "Message",
                 "Tweeting",
                 "Tweet rejected (duplicate status)"}

ErrorMessages == {"Could not connect to location details endpoint",
                  "Could not connect to scheduler API",
                  "Error when communicating with Twitter API"}

LevelNo(level) == CASE level = "INFO" -> 20
                    [] level = "WARNING" -> 30
                    [] level = "ERROR" -> 40

\* The root logger's level: INFO after basicConfig(level=logging.INFO) under
\* --verbose, else the default WARNING.
RootLevel(v) == IF v THEN LevelNo("INFO") ELSE LevelNo("WARNING")

\* logging.info / logging.exception: the record is written when its level
\* reaches the root logger's level.
Logged(l, v, level, msg) ==
    IF LevelNo(level) >= RootLevel(v) THEN [l EXCEPT ![msg] = @ + 1] ELSE l

LogInfo(l, v, msg) == Logged(l, v, "INFO", msg)

LogException(l, v, msg) == Logged(l, v, "ERROR", msg)

----------------------------------------------------------------------------
\* JSON values and Python dicts.  A scalar carries its type, so that a str
\* key never equals an int key, as in Python.

JInt(n) == [t |-> "int", v |-> n]

JStr(s) == [t |-> "str", v |-> s]

JDict(d) == [t |-> "dict", v |-> d]

KeyEq(a, b) == a.t = b.t /\ a.v = b.v

\* A dict with non-string keys: a sequence of items in insertion order.
DictHas(d, key) == \E n \in DOMAIN d : KeyEq(d[n].key, key)

DictSet(d, key, value) ==
    IF DictHas(d, key)
    THEN [n \in DOMAIN d |-> IF KeyEq(d[n].key, key)
                             THEN [key |-> key, value |-> value] ELSE d[n]]
    ELSE Append(d, [key |-> key, value |-> value])

\* dict.get(key, default)
DictGet(d, key, default) ==
    IF DictHas(d, key)
    THEN d[CHOOSE n \in DOMAIN d : KeyEq(d[n].key, key)].value
    ELSE default

----------------------------------------------------------------------------
\* Times.  A datetime is a day number and an hour of that day; an aware
\* datetime also names its zone.  A formatted time is the fields its format
\* prints.

ZoneNames == {"UTC", "America/Los_Angeles", "America/New_York"}

UtcOffset(zone) == CASE zone = "UTC" -> 0
                     [] zone = "America/Los_Angeles" -> -8
                     [] zone = "America/New_York" -> -5

\* ZoneInfo(key): the key must be a str naming a known zone.
ZoneInfo(key) ==
    IF key.t # "str" THEN Fail("TypeError", "ZoneInfo")
    ELSE IF key.v \notin ZoneNames THEN Fail("ZoneInfoNotFoundError", "ZoneInfo")
    ELSE Ok(key.v)

WeeksAhead == 12

START_TIME_UTC == [day |-> 5, hour |-> 3, tz |-> "UTC"]

END_TIME_UTC == [START_TIME_UTC EXCEPT !.day = @ + 7 * WeeksAhead]

\* datetime.astimezone(zone)
AsTimezone(dt, zone) ==
    LET hours == dt.day * 24 + dt.hour - UtcOffset(dt.tz) + UtcOffset(zone)
    IN  [day |-> hours \div 24, hour |-> hours % 24, tz |-> zone]

\* datetime.strftime(TTP_TIME_FORMAT): the local date and time, no zone.
StrftimeTTP(dt) == [day |-> dt.day, hour |-> dt.hour]

\* datetime.strptime(s, TTP_TIME_FORMAT): %H accepts 0..23 only.
StrptimeTTP(s) ==
    IF s.hour \in 0..23 /\ s.day >= 1
    THEN Ok([day |-> s.day, hour |-> s.hour])
    ELSE Fail("ValueError", "strptime")

\* datetime.replace(tzinfo=zone)
ReplaceTzinfo(dt, zone) == [day |-> dt.day, hour |-> dt.hour, tz |-> zone]

\* Appointment.human_readable_time: strftime(MESSAGE_TIME_FORMAT), %I and %p.
human_readable_time(a) ==
    [day |-> a.time.day,
     hour12 |-> IF a.time.hour % 12 = 0 THEN 12 ELSE a.time.hour % 12,
     ampm |-> IF a.time.hour < 12 THEN "AM" ELSE "PM"]

----------------------------------------------------------------------------
\* The command line.

RECURSIVE int(_)
\* int(code) of a string of decimal digits
int(digits) ==
    IF digits = <<>> THEN 0
    ELSE 10 * int(SubSeq(digits, 1, Len(digits) - 1)) + digits[Len(digits)]

\* NAME,CODE arguments, already split at the comma.
LocationStrs == {[name |-> "SFO", code |-> <<5, 4, 4, 6>>],
                 [name |-> "JFK", code |-> <<5, 1, 4, 0>>]}

\* Location.parse
parse(location_str) == [name |-> location_str.name, code |-> int(location_str.code)]

LocationArgs ==
    UNION {[1..n -> {parse(s) : s \in LocationStrs}] : n \in 1..MaxLocations}

----------------------------------------------------------------------------
\* Credentials.

FieldNames == {"consumer_key", "consumer_secret",
               "access_token_key", "access_token_secret"}

\* field.upper()
Upper(field) == CASE field = "consumer_key" -> "CONSUMER_KEY"
                  [] field = "consumer_secret" -> "CONSUMER_SECRET"
                  [] field = "access_token_key" -> "ACCESS_TOKEN_KEY"
                  [] field = "access_token_secret" -> "ACCESS_TOKEN_SECRET"

NoCredentials == [loaded |-> FALSE, fields |-> {}]

\* A TwitterApiCredentials object: the fields it was given a value for.
TwitterApiCredentials(fs) == [loaded |-> TRUE, fields |-> fs]

\* Credentials files as configparser reads them: section -> keys.
CredentialFiles ==
    {[sec \in secs |-> keys] :
        secs \in {{}, {"twitter"}, {"github", "twitter"}, {"github"}},
        keys \in SUBSET (FieldNames \cup {"user"})}

Environs == SUBSET {Upper(f) : f \in FieldNames}

\* TwitterApiCredentials.from_file
from_file(credentials_config) ==
    IF "twitter" \notin DOMAIN credentials_config
    THEN Fail("ValueError", "from_file")
    ELSE IF credentials_config["twitter"] # FieldNames
    THEN Fail("ValueError", "from_file")
    ELSE Ok(TwitterApiCredentials(credentials_config["twitter"]))

\* A faulty variant: any() where the code has all()
EnvAny(environ) == \E f \in FieldNames : Upper(f) \in environ

\* all(v in os.environ for v in env_variables)
EnvComplete(environ) == \A f \in FieldNames : Upper(f) \in environ

\* TwitterApiCredentials.from_env
from_env(environ) ==
    IF ~EnvComplete(environ)
    THEN Fail("RuntimeError", "from_env")
    ELSE Ok(TwitterApiCredentials({f \in FieldNames : Upper(f) \in environ}))

\* args.credentials: a file, or None
CredentialArgs ==
    {[given |-> TRUE, file |-> f] : f \in CredentialFiles}
        \cup {[given |-> FALSE, file |-> <<>>]}

\* read_credentials, with the record it logs first
read_credentials(credentials_file, environ) ==
    IF credentials_file.given
    THEN [msg |-> "Loading twitter credentials",
          res |-> from_file(credentials_file.file)]
    ELSE [msg |-> "Loading twitter credentials",
          res |-> from_env(environ)]

NoTweeter == [made |-> FALSE, test_mode |-> FALSE, api |-> NoCredentials]

\* A faulty variant: the test_mode argument is dropped and its default (True) used
from_credentials_default(creds, test_mode) ==
    [made |-> TRUE, test_mode |-> TRUE, api |-> creds]

\* AppointmentTweeter.from_credentials
from_credentials(creds, test_mode) ==
    [made |-> TRUE, test_mode |-> test_mode, api |-> creds]

----------------------------------------------------------------------------
\* The location details endpoint.

DetailSFO == [id |-> JInt(5446), tzData |-> JStr("America/Los_Angeles")]

DetailJFK == [id |-> JInt(5140)]

\* Records that carry the key 'id ' (with the space) the comprehension tests.
DetailSpaceOnly == ("id " :> JInt(5446)) @@ [tzData |-> JStr("America/New_York")]

DetailNamedTzData == ("id " :> JInt(1)) @@ [id |-> JStr("tzData")]

DetailResponses == {<<DetailSFO, DetailJFK>>,
                    <<DetailSpaceOnly>>, <<DetailNamedTzData>>}

\* What requests.get(...).json() does: ConnectionError, or the JSON list.
DetailOutcomes == {[error |-> TRUE, json |-> <<>>]}
                      \cup {[error |-> FALSE, json |-> r] : r \in DetailResponses}

RECURSIVE DetailsById(_, _)
\* The dict comprehension of _location_details, from left to right.
DetailsById(rs, acc) ==
    IF rs = <<>> THEN Ok(acc)
    ELSE LET location_detail == Head(rs)
         IN  IF "id " \in DOMAIN location_detail
             THEN IF "id" \notin DOMAIN location_detail
                  THEN Fail("KeyError", "_location_details")
                  ELSE DetailsById(Tail(rs),
                                   DictSet(acc, location_detail["id"],
                                           JDict(location_detail)))
             ELSE DetailsById(Tail(rs), acc)

\* Location.timezone, given what _location_details() returned
timezone(details) == ZoneInfo(DictGet(details, JStr("tzData"), JStr("UTC")))

----------------------------------------------------------------------------
\* The slots endpoint.

SlotTimes == {[day |-> 9, hour |-> 9], [day |-> 9, hour |-> 21]}

BadSlotTime == [day |-> 9, hour |-> 24]

SlotRecords ==
    {[active |-> 1, timestamp |-> t] : t \in SlotTimes}
        \cup {[active |-> 0, timestamp |-> [day |-> 9, hour |-> 9]],
              [active |-> -1, timestamp |-> [day |-> 9, hour |-> 21]],
              [timestamp |-> [day |-> 9, hour |-> 9]],
              [active |-> 2, timestamp |-> BadSlotTime]}

SlotResponses == UNION {[1..n -> SlotRecords] : n \in 0..MaxRecords}

SlotOutcomes == {[error |-> TRUE, json |-> <<>>]}
                    \cup {[error |-> FALSE, json |-> r] : r \in SlotResponses}

\* A faulty variant: >= where the code has >
IsActiveOrZero(r) == (IF "active" \in DOMAIN r THEN r["active"] ELSE 0) >= 0

\* result.get('active', 0) > 0
IsActive(r) == (IF "active" \in DOMAIN r THEN r["active"] ELSE 0) > 0

RECURSIVE Reverse(_)
Reverse(s) == IF s = <<>> THEN <<>> ELSE Append(Reverse(Tail(s)), Head(s))

\* A faulty variant: the active slots, latest record first
ActiveSlotsReversed(rs) == Reverse(SelectSeq(rs, IsActive))

\* A faulty variant: the last active slot is lost
ActiveSlotsButLast(rs) ==
    LET a == SelectSeq(rs, IsActive)
    IN  IF a = <<>> THEN a ELSE SubSeq(a, 1, Len(a) - 1)

\* [result for result in results if result.get('active', 0) > 0]
ActiveSlots(rs) == SelectSeq(rs, IsActive)

\* SCHEDULER_API_URL.format(...)
SlotsUrl(location, zone) ==
    [location |-> location.code,
     start |-> StrftimeTTP(AsTimezone(START_TIME_UTC, zone)),
     end |-> StrftimeTTP(AsTimezone(END_TIME_UTC, zone))]

NoUrl == [location |-> 0, start |-> [day |-> 0, hour |-> 0],
          end |-> [day |-> 0, hour |-> 0]]

NoResult == [timestamp |-> [day |-> 0, hour |-> 0]]

NoAppointment == [location |-> [name |-> "", code |-> 0],
                  time |-> [day |-> 0, hour |-> 0, tz |-> "UTC"]]

----------------------------------------------------------------------------
\* The Twitter API.

DuplicateStatus == 187

\* api.PostUpdate: the status is accepted, or TwitterError(message) is raised
\* with the errors the service returned.
PostOutcomes ==
    {[called |-> TRUE, accepted |-> TRUE, message |-> <<>>]}
        \cup {[called |-> TRUE, accepted |-> FALSE, message |-> m] :
                m \in {<<[code |-> DuplicateStatus]>>,
                       <<[code |-> 89]>>,
                       <<[code |-> DuplicateStatus], [code |-> 89]>>}}

NoPost == [called |-> FALSE, accepted |-> FALSE, message |-> <<>>]

\* A faulty variant: nothing is swallowed
NeverSwallowed(e) == FALSE

\* A faulty variant: the first error decides, however many there are
FirstErrorIsDuplicate(e) ==
    Len(e.message) >= 1 /\ e.message[1].code = DuplicateStatus

\* _tweet: the TwitterError that is swallowed
IsDuplicateRejection(e) ==
    Len(e.message) = 1 /\ e.message[1].code = DuplicateStatus

\* AppointmentTweeter._compose_message
_compose_message(a) ==
    [location |-> a.location.name, date |-> human_readable_time(a)]

----------------------------------------------------------------------------
\* The run.

argVars == <<locations, test, verbose>>

credVars == <<credentials, tweeter, cred_input_ok>>

detailVars == <<location_details, detail_results, detail_gets>>

generatorVars == <<results, active_slots, k, result>>

postVars == <<n_posts, n_statuses, last_post>>

tweetVars == <<n_tweets, dispatched>>

\* The state after parse_args() and the logging setup.
Init ==
    /\ locations \in LocationArgs
    /\ test \in BOOLEAN
    /\ verbose \in BOOLEAN
    /\ pc = "read_credentials"
    /\ exc = NoException
    /\ credentials = NoCredentials
    /\ tweeter = NoTweeter
    /\ cred_input_ok = TRUE
    /\ location_details = [cached |-> FALSE, value |-> <<>>]
    /\ detail_results = <<>>
    /\ detail_gets = 0
    /\ i = 0
    /\ tz = [n \in DOMAIN locations |-> "unset"]
    /\ url = NoUrl
    /\ results = <<>>
    /\ active_slots = <<>>
    /\ k = 0
    /\ result = NoResult
    /\ appointment = NoAppointment
    /\ slot_gets = [n \in DOMAIN locations |-> 0]
    /\ last_get = [endpoint |-> "none", error |-> FALSE]
    /\ n_records = 0
    /\ n_available = 0
    /\ n_tweets = 0
    /\ dispatched = {}
    /\ n_posts = 0
    /\ n_statuses = 0
    /\ last_post = NoPost
    /\ log = [m \in InfoMessages \cup ErrorMessages |-> 0]

\* An exception leaves the generator, the chain, the for loop and main.
Abort(e) == pc' = "error" /\ exc' = e

\* A faulty variant: the request is tried again after a connection error
ConnectionFailedRetry(msg, origin) ==
    /\ log' = LogException(log, verbose, msg)
    /\ UNCHANGED <<pc, exc>>

\* except requests.ConnectionError: logging.exception(msg); raise
ConnectionFailed(msg, origin) ==
    /\ log' = LogException(log, verbose, msg)
    /\ Abort(Raise("ConnectionError", origin))

\* The source read_credentials reads is one the code accepts.
InputOk(credentials_file, environ) ==
    IF credentials_file.given
    THEN /\ "twitter" \in DOMAIN credentials_file.file
         /\ credentials_file.file["twitter"] = FieldNames
    ELSE \A f \in FieldNames : Upper(f) \in environ

\* main: read_credentials, from_credentials, 'Starting checks'
ReadCredentials ==
    /\ pc = "read_credentials"
    /\ \E credentials_file \in CredentialArgs, environ \in Environs :
         LET rc == read_credentials(credentials_file, environ)
             l1 == LogInfo(log, verbose, rc.msg)
         IN  /\ cred_input_ok' = InputOk(credentials_file, environ)
             /\ IF Raised(rc.res)
                THEN /\ Abort(rc.res.exc)
                     /\ log' = l1
                     /\ UNCHANGED <<credentials, tweeter>>
                ELSE /\ credentials' = rc.res.val
                     /\ tweeter' = from_credentials(rc.res.val, test)
                     /\ log' = LogInfo(l1, verbose, "Starting checks")
                     /\ pc' = "chain"
                     /\ exc' = exc
    /\ UNCHANGED <<argVars, detailVars, generatorVars, postVars, tweetVars,
                   i, tz, url, appointment, slot_gets, last_get, n_records, n_available>>

\* A faulty variant: the generator expression stops one location early
MoreLocationsButLast == i < Len(locations) - 1

\* for location in args.locations: a location is left
MoreLocations == i < Len(locations)

\* chain.from_iterable asks the generator expression for the next location
\* and starts its get_appointments generator.
NextLocation ==
    /\ pc = "chain"
    /\ MoreLocations
    /\ i' = i + 1
    /\ pc' = "timezone"
    /\ UNCHANGED <<argVars, credVars, detailVars, generatorVars, postVars,
                   tweetVars, exc, tz, url, appointment, slot_gets, last_get,
                   n_records, n_available, log>>

\* The generator expression is exhausted: the for loop and main end.
Finish ==
    /\ pc = "chain"
    /\ ~MoreLocations
    /\ pc' = "done"
    /\ UNCHANGED <<argVars, credVars, detailVars, generatorVars, postVars,
                   tweetVars, exc, i, tz, url, appointment, slot_gets,
                   last_get, n_records, n_available, log>>

\* _location_details(), first call: the GET and the dict comprehension.
LocationDetails ==
    /\ pc = "timezone"
    /\ ~location_details.cached
    /\ detail_gets' = detail_gets + 1
    /\ \E outcome \in DetailOutcomes :
         /\ last_get' = [endpoint |-> "locations", error |-> outcome.error]
         /\ IF outcome.error
            THEN /\ ConnectionFailed(
                        "Could not connect to location details endpoint",
                        "_location_details")
                 /\ UNCHANGED <<location_details, detail_results>>
            ELSE LET d == DetailsById(outcome.json, <<>>)
                 IN  /\ detail_results' = outcome.json
                     /\ log' = log
                     /\ IF Raised(d)
                        THEN Abort(d.exc) /\ UNCHANGED location_details
                        ELSE /\ location_details' =
                                    [cached |-> TRUE, value |-> d.val]
                             /\ UNCHANGED <<pc, exc>>
    /\ UNCHANGED <<argVars, credVars, generatorVars, postVars, tweetVars,
                   i, tz, url, appointment, slot_gets, n_records, n_available>>

\* Location.timezone of the current location, first read in get_appointments
Timezone ==
    /\ pc = "timezone"
    /\ location_details.cached
    /\ LET zone == timezone(location_details.value)
       IN  IF Raised(zone)
           THEN Abort(zone.exc) /\ tz' = tz
           ELSE /\ tz' = [tz EXCEPT ![i] = zone.val]
                /\ pc' = "fetch"
                /\ exc' = exc
    /\ UNCHANGED <<argVars, credVars, detailVars, generatorVars, postVars,
                   tweetVars, i, url, appointment, slot_gets, last_get,
                   n_records, n_available, log>>

\* The slot records of a response that are available: 'active' present, > 0.
Available(rs) ==
    {n \in DOMAIN rs : "active" \in DOMAIN rs[n] /\ rs[n]["active"] > 0}

\* get_appointments up to its loop: the GET, the filter, 'Found ...'
GetSlots ==
    /\ pc = "fetch"
    /\ url' = SlotsUrl(locations[i], tz[i])
    /\ slot_gets' = [slot_gets EXCEPT ![i] = @ + 1]
    /\ \E outcome \in SlotOutcomes :
         /\ n_records + Len(outcome.json) <= MaxRecords
         /\ last_get' = [endpoint |-> "slots", error |-> outcome.error]
         /\ IF outcome.error
            THEN /\ ConnectionFailed("Could not connect to scheduler API",
                                     "get_appointments")
                 /\ UNCHANGED <<results, active_slots, k, n_records, n_available>>
            ELSE /\ results' = outcome.json
                 /\ active_slots' = ActiveSlots(outcome.json)
                 /\ k' = 0
                 /\ n_records' = n_records + Len(outcome.json)
                 /\ n_available' =
                        n_available + Cardinality(Available(outcome.json))
                 /\ log' = LogInfo(log, verbose, "Found appointments")
                 /\ pc' = "iterate"
                 /\ exc' = exc
    /\ UNCHANGED <<argVars, credVars, detailVars, postVars, tweetVars,
                   i, tz, appointment, result>>

\* get_appointments' loop: the next active slot becomes an Appointment and is
\* yielded to main's for loop.
YieldAppointment ==
    /\ pc = "iterate"
    /\ k < Len(active_slots)
    /\ result' = active_slots[k + 1]
    /\ IF "timestamp" \notin DOMAIN result'
       THEN /\ Abort(Raise("KeyError", "get_appointments"))
            /\ UNCHANGED <<appointment, k, log>>
       ELSE LET t == StrptimeTTP(result'["timestamp"])
            IN  IF Raised(t)
                THEN /\ Abort(t.exc)
                     /\ UNCHANGED <<appointment, k, log>>
                ELSE /\ appointment' = [location |-> locations[i],
                                        time |-> ReplaceTzinfo(t.val, tz[i])]
                     /\ log' = LogInfo(log, verbose, "Appointment found")
                     /\ k' = k + 1
                     /\ pc' = "tweet"
                     /\ exc' = exc
    /\ UNCHANGED <<argVars, credVars, detailVars, postVars, tweetVars,
                   i, tz, url, results, active_slots, slot_gets, last_get,
                   n_records, n_available>>

\* get_appointments returns: every active slot has been yielded.
GeneratorReturn ==
    /\ pc = "iterate"
    /\ k = Len(active_slots)
    /\ pc' = "chain"
    /\ results' = <<>>
    /\ active_slots' = <<>>
    /\ k' = 0
    /\ result' = NoResult
    /\ UNCHANGED <<argVars, credVars, detailVars, postVars, tweetVars,
                   exc, i, tz, url, appointment, slot_gets, last_get,
                   n_records, n_available, log>>

\* AppointmentTweeter._tweet, after 'Tweeting: ...' is logged
PostUpdate(l, outcome) ==
    /\ n_posts' = n_posts + 1
    /\ last_post' = outcome
    /\ IF outcome.accepted
       THEN /\ n_statuses' = n_statuses + 1
            /\ log' = l
            /\ pc' = "iterate"
            /\ exc' = exc
       ELSE IF IsDuplicateRejection(outcome)
       THEN /\ log' = LogInfo(l, verbose, "Tweet rejected (duplicate status)")
            /\ pc' = "iterate"
            /\ UNCHANGED <<n_statuses, exc>>
       ELSE /\ log' = LogException(l, verbose,
                                   "Error when communicating with Twitter API")
            /\ Abort(Raise("TwitterError", "_tweet"))
            /\ UNCHANGED n_statuses

\* main's loop body: tweeter.tweet(appointment)
Tweet ==
    /\ pc = "tweet"
    /\ n_tweets' = n_tweets + 1
    /\ dispatched' = dispatched \cup {[appointment |-> appointment,
                                       message |-> _compose_message(appointment)]}
    /\ appointment' = NoAppointment
    /\ LET l1 == LogInfo(log, verbose, "Message")
       IN  IF tweeter.test_mode
           THEN /\ log' = l1
                /\ pc' = "iterate"
                /\ UNCHANGED <<exc, postVars>>
           ELSE \E outcome \in PostOutcomes :
                    PostUpdate(LogInfo(l1, verbose, "Tweeting"), outcome)
    /\ UNCHANGED <<argVars, credVars, detailVars, generatorVars, i, tz, url,
                   slot_gets, last_get, n_records, n_available>>

Next ==
    \/ ReadCredentials
    \/ NextLocation
    \/ Finish
    \/ LocationDetails
    \/ Timezone
    \/ GetSlots
    \/ YieldAppointment
    \/ GeneratorReturn
    \/ Tweet

Spec == Init /\ [][Next]_vars

----------------------------------------------------------------------------
\* What the claims speak of.

\* PostUpdate calls that were rejected as duplicates and swallowed
Rejections == n_posts - n_statuses - (IF exc.type = "TwitterError" THEN 1 ELSE 0)

DuplicateOnly == <<[code |-> DuplicateStatus]>>

\* The latest PostUpdate raised a TwitterError other than the lone code 187.
FatalPost ==
    last_post.called /\ ~last_post.accepted /\ last_post.message # DuplicateOnly

NetworkUsed ==
    \/ detail_gets > 0
    \/ \E n \in DOMAIN locations : slot_gets[n] > 0
    \/ n_posts > 0

\* The position in rs of its n-th available record
NthAvailable(rs, n) ==
    CHOOSE m \in Available(rs) :
        Cardinality({x \in Available(rs) : x <= m}) = n

\* The tzData of the location's own entry in the location details response,
\* UTC when the entry has none.
OwnZone(location) ==
    LET own == {n \in DOMAIN detail_results :
                    /\ "id" \in DOMAIN detail_results[n]
                    /\ KeyEq(detail_results[n]["id"], JInt(location.code))}
        zoned == {n \in own : "tzData" \in DOMAIN detail_results[n]}
    IN  IF zoned = {} THEN "UTC"
        ELSE detail_results[CHOOSE n \in zoned : TRUE]["tzData"].v

----------------------------------------------------------------------------
\* C1 as stated: in a run that completes, every available slot is dispatched
\* and no two dispatches carry the same location and time.
C1_OncePerLocationAndTime ==
    pc = "done" => n_tweets = n_available /\ Cardinality(dispatched) = n_tweets

\* C1, amended: tweet is invoked exactly once for each slot record with
\* active > 0 of each location entry's response: at every point of the run the
\* dispatches made and the active records still to come add up to the
\* available records received, and a completed run has dispatched them all.
C1_OncePerActiveRecord ==
    /\ n_tweets <= n_available
    /\ pc = "iterate" => n_tweets + (Len(active_slots) - k) = n_available
    /\ pc = "tweet" => n_tweets + 1 + (Len(active_slots) - k) = n_available
    /\ pc \in {"chain", "timezone", "fetch", "done"} => n_tweets = n_available

\* C1: a completed run over one location whose response named one slot time
\* in two active records: two dispatches, one location and time.
C1_Witness ==
    /\ pc = "done"
    /\ Len(locations) = 1
    /\ n_tweets = 2
    /\ Cardinality(dispatched) = 1

\* C2: a PostUpdate rejected with the lone error 187 raises nothing; the step
\* leaves the run where an accepted post would, and a run with such rejections
\* that completes has dispatched every available record and fetched every
\* location.
C2_DuplicateSwallowed ==
    /\ [][(n_posts' = n_posts + 1 /\ last_post'.message = DuplicateOnly)
            => /\ exc' = NoException
               /\ pc' = "iterate"
               /\ n_tweets' = n_tweets + 1
               /\ UNCHANGED <<i, k, active_slots, results, slot_gets>>]_vars
    /\ []((pc = "done" /\ Rejections > 0)
            => /\ n_tweets = n_available
               /\ \A n \in DOMAIN locations : slot_gets[n] = 1)

\* C2: a completed run over two locations in which a post was rejected as a
\* duplicate and the latest post was accepted.
C2_Witness ==
    /\ pc = "done"
    /\ i = 2
    /\ Rejections >= 1
    /\ last_post.accepted

\* C3: the slots endpoint is requested at most once per location entry in any
\* run, and exactly once per entry in a run that completes; the request names
\* the entry's code.
C3_OneGetPerLocation ==
    /\ \A n \in DOMAIN locations : slot_gets[n] <= 1
    /\ pc = "done" => \A n \in DOMAIN locations : slot_gets[n] = 1
    /\ pc \in {"iterate", "tweet"} =>
            slot_gets[i] = 1 /\ url.location = locations[i].code

\* C3: a completed run whose command line gave the same location twice.
C3_Witness ==
    /\ pc = "done"
    /\ Len(locations) = 2
    /\ locations[1] = locations[2]
    /\ slot_gets[1] = 1 /\ slot_gets[2] = 1

\* C4: the slots that are dispatched are records of the current response
\* whose 'active' is present and > 0, exactly those; a record whose 'active'
\* is absent, 0 or negative is never dispatched, and with no available record
\* nothing is dispatched and nothing posted.
C4_OnlyAvailableDispatched ==
    /\ Len(active_slots) = Cardinality(Available(results))
    /\ \A n \in DOMAIN active_slots :
            /\ "active" \in DOMAIN active_slots[n]
            /\ active_slots[n]["active"] > 0
            /\ \E m \in DOMAIN results : results[m] = active_slots[n]
    /\ pc = "tweet" =>
            /\ result = active_slots[k]
            /\ appointment.location = locations[i]
            /\ StrftimeTTP(appointment.time) = result["timestamp"]
    /\ n_tweets <= n_available
    /\ n_available = 0 => n_tweets = 0 /\ n_posts = 0 /\ dispatched = {}
    /\ \A d \in dispatched :
            \E n \in DOMAIN locations : locations[n] = d.appointment.location

\* C4: a response of three records, one available, one without 'active' and
\* one with active <= 0, of which only the available one was dispatched.
C4_Witness ==
    /\ pc = "iterate"
    /\ Len(results) = 3
    /\ \E m \in DOMAIN results : "active" \notin DOMAIN results[m]
    /\ \E m \in DOMAIN results :
            "active" \in DOMAIN results[m] /\ results[m]["active"] <= 0
    /\ k = 1 /\ Len(active_slots) = 1
    /\ n_tweets = 1

\* C5 as stated: in test mode PostUpdate is never called while the message of
\* every dispatched slot is written to the log; out of test mode every slot
\* reached gets one PostUpdate attempt.
C5_MessageAlwaysLogged ==
    /\ test => n_posts = 0 /\ log["Message"] = n_tweets
    /\ ~test => n_posts = n_tweets

\* C5, amended: in test mode PostUpdate is never called; the message of every
\* slot reached is composed and handed to logging.info, which writes it only
\* under --verbose (the root logger stays at WARNING without it); out of test
\* mode every slot reached gets exactly one PostUpdate attempt.
C5_TestModeNeverPosts ==
    /\ test => n_posts = 0 /\ n_statuses = 0 /\ last_post = NoPost
    /\ ~test => n_posts = n_tweets
    /\ log["Message"] = IF verbose THEN n_tweets ELSE 0
    /\ log["Tweeting"] = IF verbose THEN n_posts ELSE 0
    /\ \A d \in dispatched : d.message = _compose_message(d.appointment)

\* C5: a completed test-mode run that reached a slot and wrote no message.
C5_Witness ==
    /\ pc = "done"
    /\ test
    /\ n_tweets >= 1
    /\ log["Message"] = 0

\* C6: a GET that fails with a connection error is logged and raised: the run
\* has ended with ConnectionError, the request was issued once, and nothing
\* is requested, dispatched or posted afterwards.
C6_NoRetry ==
    /\ [](last_get.error =>
            /\ pc = "error"
            /\ exc.type = "ConnectionError"
            /\ detail_gets <= 1
            /\ \A n \in DOMAIN locations : slot_gets[n] <= 1
            /\ last_get.endpoint = "locations" =>
                    /\ exc.origin = "_location_details"
                    /\ log["Could not connect to location details endpoint"] = 1
            /\ last_get.endpoint = "slots" =>
                    /\ exc.origin = "get_appointments"
                    /\ log["Could not connect to scheduler API"] = 1
                    /\ \A n \in DOMAIN locations : n > i => slot_gets[n] = 0)
    /\ [][last_get.error =>
            UNCHANGED <<slot_gets, detail_gets, n_tweets, n_posts>>]_vars

\* C6: the slots GET of the second location failed after a notification.
C6_Witness ==
    /\ last_get.error
    /\ last_get.endpoint = "slots"
    /\ i = 2
    /\ n_tweets >= 1

\* C7: a TwitterError other than the lone error 187 is logged and raised out
\* of the run: the failing dispatch is the last one, no later location is
\* fetched, and what was posted before stays posted.
C7_OtherTwitterErrorAborts ==
    /\ [](FatalPost =>
            /\ pc = "error"
            /\ exc = Raise("TwitterError", "_tweet")
            /\ log["Error when communicating with Twitter API"] = 1
            /\ n_tweets = n_posts
            /\ n_statuses = n_posts - Rejections - 1
            /\ \A n \in DOMAIN locations : n > i => slot_gets[n] = 0)
    /\ [][FatalPost =>
            UNCHANGED <<slot_gets, detail_gets, n_tweets, n_posts, n_statuses>>]_vars

\* C7: a post failed with two errors, the first of them 187, after an
\* accepted post and with an active slot of the response still to come.
C7_Witness ==
    /\ FatalPost
    /\ Len(last_post.message) = 2
    /\ n_statuses >= 1
    /\ k < Len(active_slots)

\* C8: locations are fetched in command-line order; the active slots are the
\* available records in the order of the response and are dispatched in that
\* order; the slots GET of a location is issued only when every available
\* record received before has been dispatched, so a failing GET leaves the
\* earlier locations' notifications dispatched.
C8_LazyInOrder ==
    /\ [](/\ \A n \in DOMAIN locations :
                /\ n < i => slot_gets[n] = 1
                /\ n > i => slot_gets[n] = 0
          /\ Len(active_slots) = Cardinality(Available(results))
          /\ \A n \in DOMAIN active_slots :
                active_slots[n] = results[NthAvailable(results, n)]
          /\ pc = "tweet" => result = active_slots[k]
          /\ pc \in {"chain", "timezone", "fetch"} => n_tweets = n_available
          /\ (exc.type = "ConnectionError" /\ exc.origin = "get_appointments")
                => n_tweets = n_available)
    /\ [][/\ i' = i \/ (i' = i + 1 /\ n_tweets = n_available)
          /\ k' = k \/ k' = k + 1 \/ (k' = 0 /\ k = Len(active_slots))
          /\ n_tweets' # n_tweets => n_tweets' = n_tweets + 1 /\ pc = "tweet"
          /\ slot_gets' # slot_gets =>
                slot_gets' = [slot_gets EXCEPT ![i] = @ + 1]]_vars

\* C8: the second location is about to be fetched and the two different
\* slots of the first have been dispatched.
C8_Witness ==
    /\ pc = "fetch"
    /\ i = 2
    /\ n_tweets = 2
    /\ Cardinality(dispatched) = 2

\* C9: credentials come first, in either mode: a source that is not complete
\* ends the run with ValueError (file) or RuntimeError (environment) before
\* any GET, POST or dispatch, and whatever uses the network runs with all
\* four credential fields loaded.
C9_CredentialsFirst ==
    /\ (pc # "read_credentials" /\ ~cred_input_ok) =>
            /\ pc = "error"
            /\ exc \in {Raise("ValueError", "from_file"),
                        Raise("RuntimeError", "from_env")}
            /\ ~credentials.loaded /\ ~tweeter.made
            /\ ~NetworkUsed /\ n_tweets = 0
    /\ exc.origin \in {"from_file", "from_env"} => ~cred_input_ok
    /\ (NetworkUsed \/ n_tweets > 0 \/ pc \notin {"read_credentials", "error"}) =>
            /\ credentials.loaded
            /\ credentials.fields = FieldNames
            /\ tweeter.made /\ tweeter.api = credentials

\* C9: a test-mode run ended by the environment lacking a variable.
C9_Witness ==
    /\ test
    /\ pc = "error"
    /\ exc = Raise("RuntimeError", "from_env")
    /\ ~NetworkUsed

\* C10 as stated: the timezone of every location whose timezone was resolved
\* is the tzData of its own entry in the location details response, UTC when
\* that entry has none.
C10_OwnTimezone ==
    \A n \in DOMAIN locations : tz[n] # "unset" => tz[n] = OwnZone(locations[n])

====
